---- MODULE Spec2Model ----
(***************************************************************************)
(* A model of the process_graph crate (src/src/lib.rs).                    *)
(*                                                                         *)
(* The crate has a compile-time part (the two macros) and a run-time part  *)
(* (the three implementations of GraphNode::run).  The model has a phase   *)
(* for each:                                                               *)
(*   - the expansion of impl_graph_node_for_tuples!, one macro invocation  *)
(*     per step, which produces the tuple implementations the run-time     *)
(*     part may use;                                                       *)
(*   - the construction of two composites by a caller (with graph! or with *)
(*     pipe calls), and their runs.  A run is a call stack: every call of  *)
(*     GraphNode::run and every return from it is one step, so that the    *)
(*     order of the sub-node invocations, a panic that unwinds the stack   *)
(*     and a closure that never returns are states of the model.           *)
(* The crate is single-threaded: at most one run is in progress.           *)
(***************************************************************************)
EXTENDS Integers, Sequences, FiniteSets

VARIABLES
    pending,   \* macro invocations of impl_graph_node_for_tuples! not yet expanded
    impls,     \* the tuple implementations emitted so far, in order
    prog,      \* the caller's program: how it builds its two composites
    node,      \* node[c]: composite c as constructed (its structure never changes)
    st,        \* st[c][id]: the captured variable of closure id of composite c
    cur,       \* the composite whose run is in progress, 0 when none is
    ctl,       \* the call being made, or the value / panic being returned
    kont,      \* the frames of GraphNode::run on the stack, innermost first
    trace,     \* trace[c]: the calls and returns of the latest run of c
    inputs,    \* inputs[c]: the inputs of the runs of c so far
    outs,      \* outs[c]: how each finished run of c ended
    fcalls,    \* fcalls[c][id]: how many times closure id of c has been called
    reached    \* reached[c][k]: the nodes (paths) of c that run k of c has called

vars == <<pending, impls, prog, node, st, cur, ctl, kont, trace, inputs, outs, fcalls, reached>>

\* Runs of one composite, and the largest scalar input a caller passes.
MaxRuns == 2
MaxIn == 2

--------------------------------------------------------------------------
(* Nodes.  A node is a closure (the blanket implementation for FnMut), a   *)
(* Graph (two nodes in sequence) or a Rust tuple of nodes.                 *)

\* A caller's closure: `id` names the instance, `body` its code.
Fn(id, body) == [kind |-> "Fn", id |-> id, body |-> body]

\* Rust's tuple expression (n1, ..., nk).
Tuple(items) == [kind |-> "Tuple", items |-> items]

\* (mutant) the two nodes end in each other's field.
Graph_newSwapped(src, sink) == [kind |-> "Graph", src |-> sink, sink |-> src]

\* Graph::new: the struct with the two nodes moved in.
Graph_new(src, sink) == [kind |-> "Graph", src |-> src, sink |-> sink]

\* GraphNode::pipe.
pipe(self, next) == Graph_new(self, next)

\* The sub-node in position i: src, sink of a Graph, field i of a tuple.
Sub(n, i) ==
    IF n.kind = "Graph" THEN (IF i = 1 THEN n.src ELSE n.sink)
    ELSE n.items[i]

Arity(n) ==
    IF n.kind = "Graph" THEN 2
    ELSE IF n.kind = "Tuple" THEN Len(n.items)
    ELSE 0

RECURSIVE NodeAt(_, _)
NodeAt(n, p) == IF p = <<>> THEN n ELSE NodeAt(Sub(n, Head(p)), Tail(p))

RECURSIVE AllPaths(_)
AllPaths(n) ==
    {<<>>} \cup UNION {{<<i>> \o q : q \in AllPaths(Sub(n, i))} : i \in 1..Arity(n)}

LeafIds(n) == {NodeAt(n, p).id : p \in {q \in AllPaths(n) : NodeAt(n, q).kind = "Fn"}}

\* Every closure starts with its captured variable at 0.
InitSt(n) == [i \in LeafIds(n) |-> 0]

--------------------------------------------------------------------------
(* The closures the callers of this model pass.  A closure call has one of *)
(* three outcomes: it returns a value, it panics, or it never returns.     *)

\* Values: an integer, or a tuple of values.
I32(i) == [k |-> "int", i |-> i, t |-> <<>>]
Tup(t) == [k |-> "tup", i |-> 0, t |-> t]
NoVal == I32(0)

\*   inc   |x| x + 1                  cnt   |_| { n += 1; n }
\*   dbl   |x| 2 * x                  acc   |x| { n += x; n }
\*   neg   |x| -x                     fork  |x| (x, x + 1)
\*   sum   |(a, b)| a + b             chk   |x| { assert!(x != 1); x }
\*   spin  |x| { while x == 2 {}; x }
Closure(body, s, x) ==
    CASE body = "inc"  -> [st |-> s, res |-> "ret", out |-> I32(x.i + 1)]
      [] body = "dbl"  -> [st |-> s, res |-> "ret", out |-> I32(2 * x.i)]
      [] body = "neg"  -> [st |-> s, res |-> "ret", out |-> I32(0 - x.i)]
      [] body = "cnt"  -> [st |-> s + 1, res |-> "ret", out |-> I32(s + 1)]
      [] body = "acc"  -> [st |-> s + x.i, res |-> "ret", out |-> I32(s + x.i)]
      [] body = "fork" -> [st |-> s, res |-> "ret", out |-> Tup(<<x, I32(x.i + 1)>>)]
      [] body = "sum"  -> [st |-> s, res |-> "ret", out |-> I32(x.t[1].i + x.t[2].i)]
      [] body = "chk"  -> IF x.i = 1 THEN [st |-> s, res |-> "panic", out |-> NoVal]
                          ELSE [st |-> s, res |-> "ret", out |-> x]
      [] body = "spin" -> IF x.i = 2 THEN [st |-> s, res |-> "hang", out |-> NoVal]
                          ELSE [st |-> s, res |-> "ret", out |-> x]

--------------------------------------------------------------------------
(* impl_graph_node_for_tuples!                                             *)

\* The invocation of lib.rs:101-104: one name per "T In Out" triple.
TupleParams == <<"A", "B", "C", "D", "E", "F", "G", "H">>

\* The implementation one expansion step emits, for the tuple type (args).
TupleImpl(args, arm) == [self |-> args, arm |-> arm]

--------------------------------------------------------------------------
(* graph!                                                                  *)

Arrow == [t |-> "=>"]
AtBuild == [t |-> "@build"]
Expr(n) == [t |-> "expr", e |-> n]
CompileError == [kind |-> "CompileError"]

\* The optional tail $(=> $($rest:tt)*)? of a rule, from token i on.
OptRest(toks, i) == Len(toks) < i \/ toks[i].t = "=>"

\* (mutant) the @build rule pipes the rest of the chain into the next node
\* only: the stages before it are dropped.
RECURSIVE graphDropsHead(_)
graphDropsHead(toks) ==
    IF /\ Len(toks) >= 2
       /\ toks[1].t = "=>"
       /\ toks[2].t = "expr"
       /\ OptRest(toks, 3)
    THEN graphDropsHead(<<AtBuild, toks[2]>> \o SubSeq(toks, 3, Len(toks)))
    ELSE IF /\ Len(toks) = 2
            /\ toks[1].t = "@build"
            /\ toks[2].t = "expr"
    THEN toks[2].e
    ELSE IF /\ Len(toks) >= 4
            /\ toks[1].t = "@build"
            /\ toks[2].t = "expr"
            /\ toks[3].t = "=>"
            /\ toks[4].t = "expr"
            /\ OptRest(toks, 5)
    THEN graphDropsHead(<<AtBuild, toks[4]>> \o SubSeq(toks, 5, Len(toks)))
    ELSE CompileError

RECURSIVE graph(_)
graph(toks) ==
    IF /\ Len(toks) >= 2
       /\ toks[1].t = "=>"
       /\ toks[2].t = "expr"
       /\ OptRest(toks, 3)
    THEN graph(<<AtBuild, toks[2]>> \o SubSeq(toks, 3, Len(toks)))
    ELSE IF /\ Len(toks) = 2
            /\ toks[1].t = "@build"
            /\ toks[2].t = "expr"
    THEN toks[2].e
    ELSE IF /\ Len(toks) >= 4
            /\ toks[1].t = "@build"
            /\ toks[2].t = "expr"
            /\ toks[3].t = "=>"
            /\ toks[4].t = "expr"
            /\ OptRest(toks, 5)
    THEN graph(<<AtBuild, Expr(pipe(toks[2].e, toks[4].e))>>
               \o SubSeq(toks, 5, Len(toks)))
    ELSE CompileError

\* The tokens of graph!{ => s1 => s2 ... } for the stages s1, s2, ...
RECURSIVE ChainTokens(_)
ChainTokens(stages) ==
    IF stages = <<>> THEN <<>>
    ELSE <<Arrow, Expr(Head(stages))>> \o ChainTokens(Tail(stages))

\* The same chain written by hand: s1.pipe(s2).pipe(s3)...
RECURSIVE PipeChain(_)
PipeChain(stages) ==
    IF Len(stages) = 1 THEN stages[1]
    ELSE pipe(PipeChain(SubSeq(stages, 1, Len(stages) - 1)), stages[Len(stages)])

--------------------------------------------------------------------------
(* The callers' programs.  A program builds two composites; the second is  *)
(* fed the inputs the first was given (component `proj` of them when proj  *)
(* is not 0), one run at a time and never ahead of the first.  With feed   *)
(* "reached" the caller passes on the inputs of those runs only in which   *)
(* the first composite called its node in position proj.                   *)

ByMacro(stages) == [how |-> "graph!", stages |-> stages]
ByExpr(n) == [how |-> "expr", node |-> n]
Build(b) == IF b.how = "graph!" THEN graph(ChainTokens(b.stages)) ELSE b.node

Chains ==
    { <<Fn(1, "acc")>>,
      <<Fn(1, "cnt")>>,
      <<Fn(1, "acc"), Fn(2, "spin")>>,
      <<Fn(1, "spin"), Fn(2, "cnt")>>,
      <<Fn(1, "inc"), Fn(2, "cnt")>>,
      <<Fn(1, "acc"), Fn(2, "chk"), Fn(3, "cnt")>>,
      <<Tuple(<<Fn(1, "cnt"), Fn(2, "acc")>>), Fn(3, "sum")>>,
      <<Fn(1, "acc"), Fn(2, "fork"), Tuple(<<Fn(3, "cnt"), Fn(4, "neg")>>), Fn(5, "sum")>> }

Triples ==
    { <<Fn(1, "acc"), Fn(2, "dbl"), Fn(3, "cnt")>>,
      <<Fn(1, "acc"), Fn(2, "chk"), Fn(3, "cnt")>>,
      <<Fn(1, "cnt"), Fn(2, "acc"), Fn(3, "chk")>>,
      <<Fn(1, "acc"), Fn(2, "inc"), Fn(3, "spin")>>,
      <<Fn(1, "spin"), Fn(2, "cnt"), Fn(3, "chk")>> }

SlotBody == <<"cnt", "acc", "inc", "chk", "neg", "acc", "dbl", "cnt">>
TupleOf(k) == Tuple([i \in 1..k |-> Fn(i, SlotBody[i])])

Groups ==
    {[g |-> TupleOf(k), j |-> k] : k \in 1..Len(TupleParams)}
    \cup {[g |-> TupleOf(Len(TupleParams)), j |-> 2],
          [g |-> TupleOf(Len(TupleParams)), j |-> 6],
          [g |-> Tuple(<<Fn(1, "acc"), Fn(2, "spin"), Fn(3, "cnt")>>), j |-> 3],
          [g |-> Tuple(<<pipe(Fn(1, "acc"), Fn(2, "chk")), pipe(Fn(3, "inc"), Fn(4, "cnt"))>>),
           j |-> 2]}

Programs ==
    {[mk |-> <<ByMacro(s), ByExpr(PipeChain(s))>>, proj |-> 0, feed |-> "all", is |-> "chain"] :
        s \in Chains}
    \cup {[mk |-> <<ByExpr(pipe(pipe(t[1], t[2]), t[3])), ByExpr(pipe(t[1], pipe(t[2], t[3])))>>,
           proj |-> 0, feed |-> "all", is |-> "assoc"] : t \in Triples}
    \cup {[mk |-> <<ByExpr(x.g), ByExpr(x.g.items[x.j])>>, proj |-> x.j, feed |-> f, is |-> "group"] :
           x \in Groups, f \in {"all", "reached"}}

\* The input a caller derives from the seed x for node n: a scalar for a
\* closure, a tuple with a different value in each position for a tuple.
RECURSIVE MkInput(_, _)
MkInput(n, x) ==
    IF n.kind = "Graph" THEN MkInput(n.src, x)
    ELSE IF n.kind = "Tuple"
    THEN Tup([i \in 1..Len(n.items) |-> MkInput(n.items[i], x + i - 1)])
    ELSE IF n.body = "sum"
    THEN Tup(<<I32(x % (MaxIn + 1)), I32((x + 1) % (MaxIn + 1))>>)
    ELSE I32(x % (MaxIn + 1))

Slots == {1, 2}
NoNode == [kind |-> "None"]
Idle == [op |-> "idle", path |-> <<>>, val |-> NoVal]
Ev(e, p, v) == [ev |-> e, path |-> p, val |-> v]

compiled == pending = <<>>

Init ==
    /\ pending = <<TupleParams>>
    /\ impls = <<>>
    /\ prog \in Programs
    /\ node = [c \in Slots |-> NoNode]
    /\ st = [c \in Slots |-> <<>>]
    /\ cur = 0
    /\ ctl = Idle
    /\ kont = <<>>
    /\ trace = [c \in Slots |-> <<>>]
    /\ inputs = [c \in Slots |-> <<>>]
    /\ outs = [c \in Slots |-> <<>>]
    /\ fcalls = [c \in Slots |-> <<>>]
    /\ reached = [c \in Slots |-> <<>>]

run_vars == <<prog, node, st, cur, ctl, kont, trace, inputs, outs, fcalls, reached>>

\* (mutant) the one-triple rule ends the recursion and emits nothing.
ExpandOneEmitsNothing ==
    /\ pending # <<>>
    /\ Len(Head(pending)) = 1
    /\ impls' = impls
    /\ pending' = Tail(pending)
    /\ UNCHANGED run_vars

\* The one-triple rule of impl_graph_node_for_tuples!: the 1-tuple
\* implementation, and no further invocation.
ExpandOne ==
    /\ pending # <<>>
    /\ Len(Head(pending)) = 1
    /\ impls' = Append(impls, TupleImpl(Head(pending), 1))
    /\ pending' = Tail(pending)
    /\ UNCHANGED run_vars

\* The rule for a first triple, a comma and more triples: the implementation
\* for the whole list, and an invocation on the list without its first.
ExpandMany ==
    /\ pending # <<>>
    /\ Len(Head(pending)) >= 2
    /\ impls' = Append(impls, TupleImpl(Head(pending), 2))
    /\ pending' = Tail(pending) \o <<Tail(Head(pending))>>
    /\ UNCHANGED run_vars

\* The caller builds composite c (the crate must have compiled).
Construct(c) ==
    /\ compiled
    /\ cur = 0
    /\ node[c] = NoNode
    /\ c = 1 \/ node[1] # NoNode
    /\ Build(prog.mk[c]) # CompileError
    /\ node' = [node EXCEPT ![c] = Build(prog.mk[c])]
    /\ st' = [st EXCEPT ![c] = InitSt(node'[c])]
    /\ fcalls' = [fcalls EXCEPT ![c] = InitSt(node'[c])]
    /\ UNCHANGED <<pending, impls, prog, cur, ctl, kont, trace, inputs, outs, reached>>

\* The caller calls run(x) on composite c.  A caller whose earlier run
\* panicked may have caught the unwind and go on using the composite.
StartRun(c, x) ==
    /\ cur = 0
    /\ node[c] # NoNode
    /\ Len(inputs[c]) < MaxRuns
    /\ cur' = c
    /\ ctl' = [op |-> "call", path |-> <<>>, val |-> x]
    /\ kont' = <<>>
    /\ trace' = [trace EXCEPT ![c] = <<Ev("call", <<>>, x)>>]
    /\ inputs' = [inputs EXCEPT ![c] = Append(@, x)]
    /\ reached' = [reached EXCEPT ![c] = Append(@, {<<>>})]
    /\ UNCHANGED <<pending, impls, prog, node, st, outs, fcalls>>

Call1 == \E x \in 0..MaxIn : StartRun(1, MkInput(node[1], x))

\* The input of the first composite's run k, as the second is given it.
Replay(k) == IF prog.proj = 0 THEN inputs[1][k] ELSE inputs[1][k].t[prog.proj]

\* The finished runs of the first composite, and those of them in which it
\* called its node in position proj.
RunsDone == [k \in 1..Len(outs[1]) |-> k]
ReachedSlot(k) == <<prog.proj>> \in reached[1][k]
ReachedRuns == SelectSeq(RunsDone, ReachedSlot)

\* The runs of the first composite whose inputs the second is given.
Fed(k) == prog.feed = "all" \/ ReachedSlot(k)
FedRuns == SelectSeq(RunsDone, Fed)

Call2 ==
    /\ Len(inputs[2]) < Len(FedRuns)
    /\ StartRun(2, Replay(FedRuns[Len(inputs[2]) + 1]))

--------------------------------------------------------------------------
(* A run.  ctl is the call being made (op "call": node `path` of the       *)
(* running composite is called with `val`), or what the node `path` just   *)
(* did: it returned `val` ("ret"), it panicked ("panic"), or it is in a    *)
(* closure that never returns ("hang").  The trace records a call when it  *)
(* is made and a return or panic when it happens.                          *)

root == node[cur]
Frame(p, pc, arg, acc) == [path |-> p, pc |-> pc, arg |-> arg, acc |-> acc]
Log(e) == trace' = [trace EXCEPT ![cur] = Append(@, e)]

\* A call of node p.i with v, from the body of node p.
Invoke(p, i, v) ==
    /\ ctl' = [op |-> "call", path |-> Append(p, i), val |-> v]
    /\ Log(Ev("call", Append(p, i), v))
    /\ reached' = [reached EXCEPT ![cur][Len(reached[cur])] = @ \cup {Append(p, i)}]

\* Node p returns v to its caller.
Reply(p, v) ==
    /\ ctl' = [op |-> "ret", path |-> p, val |-> v]
    /\ Log(Ev("ret", p, v))

Top == Head(kont)
Called(kind) == cur # 0 /\ ctl.op = "call" /\ NodeAt(root, ctl.path).kind = kind
Returned(kind) ==
    /\ cur # 0
    /\ ctl.op = "ret"
    /\ kont # <<>>
    /\ NodeAt(root, Top.path).kind = kind

\* (mutant) the closure is called twice.
ApplyTwice(f, s, x) == Closure(f.body, Closure(f.body, s, x).st, x)
\* (mutant) the closure is called on a copy: what it captured is not updated.
ApplyOnCopy(f, s, x) == [Closure(f.body, s, x) EXCEPT !.st = s]

\* What the closure does when called: self(input).
Apply(f, s, x) == Closure(f.body, s, x)

\* The closure being called, and what calling it does.
Callee == NodeAt(root, ctl.path)
Applied == Apply(Callee, st[cur][Callee.id], ctl.val)

\* impl GraphNode for F: the closure is called with the input, and what it
\* returns is returned.
FnRun ==
    /\ Called("Fn")
    /\ st' = [st EXCEPT ![cur][Callee.id] = Applied.st]
    /\ fcalls' = [fcalls EXCEPT ![cur][Callee.id] = @ + 1]
    /\ ctl' = [op |-> Applied.res, path |-> ctl.path, val |-> Applied.out]
    /\ Log(Ev(Applied.res, ctl.path, Applied.out))
    /\ UNCHANGED <<pending, impls, prog, node, cur, kont, inputs, outs, reached>>

\* (mutant) run calls the sink first.
FirstIsSink == 1 + 1

\* The node Graph::run calls first, and the one it calls with the result.
First == 1
Second == 2

\* Graph::run, entered: self.src.run(input) is evaluated first.
GraphRun ==
    /\ Called("Graph")
    /\ kont' = <<Frame(ctl.path, First, NoVal, <<>>)>> \o kont
    /\ Invoke(ctl.path, First, ctl.val)
    /\ UNCHANGED <<pending, impls, prog, node, st, cur, inputs, outs, fcalls>>

\* Graph::run, src has returned: self.sink.run is called with its value.
GraphMid ==
    /\ Returned("Graph")
    /\ Top.pc = First
    /\ kont' = <<[Top EXCEPT !.pc = Second]>> \o Tail(kont)
    /\ Invoke(Top.path, Second, ctl.val)
    /\ UNCHANGED <<pending, impls, prog, node, st, cur, inputs, outs, fcalls>>

\* Graph::run, sink has returned: its value is the result.
GraphRet ==
    /\ Returned("Graph")
    /\ Top.pc = Second
    /\ kont' = Tail(kont)
    /\ Reply(Top.path, ctl.val)
    /\ UNCHANGED <<pending, impls, prog, node, st, cur, inputs, outs, fcalls, reached>>

\* Whether a tuple of k nodes is a node: an implementation was generated.
HasTupleImpl(k) == \E i \in DOMAIN impls : Len(impls[i].self) = k

\* The position whose node the tuple's run calls after position i.
NextSlot(i) == i + 1

\* Element j of the result tuple is $T_j.run($In_j): the node of position j
\* of the destructured self, on the value of position j of the input.
\* (mutant) every element is computed by the first node.
SlotNodeFirst(j) == 1
SlotNode(j) == j
\* (mutant) every node is given the first component of the input.
SlotInputFirst(arg, j) == arg.t[1]
SlotInput(arg, j) == arg.t[j]

\* The tuple's run, entered: self and input are destructured and the first
\* element of the result tuple is evaluated.
TupleRun ==
    /\ Called("Tuple")
    /\ HasTupleImpl(Len(NodeAt(root, ctl.path).items))
    /\ kont' = <<Frame(ctl.path, NextSlot(0), ctl.val, <<>>)>> \o kont
    /\ Invoke(ctl.path, SlotNode(NextSlot(0)), SlotInput(ctl.val, NextSlot(0)))
    /\ UNCHANGED <<pending, impls, prog, node, st, cur, inputs, outs, fcalls>>

\* The tuple's run, an element has been evaluated and more follow.
TupleNext ==
    /\ Returned("Tuple")
    /\ Len(Top.acc) + 1 < Len(NodeAt(root, Top.path).items)
    /\ kont' = <<[Top EXCEPT !.pc = NextSlot(@), !.acc = Append(@, ctl.val)]>> \o Tail(kont)
    /\ Invoke(Top.path, SlotNode(NextSlot(Top.pc)), SlotInput(Top.arg, NextSlot(Top.pc)))
    /\ UNCHANGED <<pending, impls, prog, node, st, cur, inputs, outs, fcalls>>

\* The tuple's run, the last element has been evaluated: the tuple of the
\* results is returned.
TupleRet ==
    /\ Returned("Tuple")
    /\ Len(Top.acc) + 1 = Len(NodeAt(root, Top.path).items)
    /\ kont' = Tail(kont)
    /\ Reply(Top.path, Tup(Append(Top.acc, ctl.val)))
    /\ UNCHANGED <<pending, impls, prog, node, st, cur, inputs, outs, fcalls, reached>>

\* (mutant) unwinding a frame puts the closures back in their first state.
UnwoundReset(s) == [i \in DOMAIN s |-> 0]

\* The closures' state as a panic leaves it when it unwinds a frame of run:
\* no run has a handler or a destructor that touches it.
Unwound(s) == s

\* (mutant) run catches the panic of a sub-node and returns a default.
Swallow(fr) == [op |-> "ret", path |-> fr.path, val |-> NoVal]

\* What a panic in a sub-node makes of the run whose frame is fr: run has
\* no handler, the panic goes on to its caller.
Propagate(fr) == [op |-> "panic", path |-> fr.path, val |-> NoVal]

\* A panic unwinds one frame of Graph::run or of a tuple's run.
Unwind ==
    /\ cur # 0
    /\ ctl.op = "panic"
    /\ kont # <<>>
    /\ kont' = Tail(kont)
    /\ ctl' = Propagate(Top)
    /\ Log(Ev(Propagate(Top).op, Top.path, NoVal))
    /\ st' = [st EXCEPT ![cur] = Unwound(@)]
    /\ UNCHANGED <<pending, impls, prog, node, cur, inputs, outs, fcalls, reached>>

\* The run of the composite is over: the caller has the value, or the panic.
Finish ==
    /\ cur # 0
    /\ ctl.op \in {"ret", "panic"}
    /\ kont = <<>>
    /\ outs' = [outs EXCEPT ![cur] = Append(@, [res |-> ctl.op, val |-> ctl.val])]
    /\ cur' = 0
    /\ ctl' = Idle
    /\ UNCHANGED <<pending, impls, prog, node, st, kont, trace, inputs, fcalls, reached>>

Step ==
    \/ FnRun
    \/ GraphRun
    \/ GraphMid
    \/ GraphRet
    \/ TupleRun
    \/ TupleNext
    \/ TupleRet
    \/ Unwind
    \/ Finish

Next ==
    \/ ExpandOne
    \/ ExpandMany
    \/ Construct(1)
    \/ Construct(2)
    \/ Call1
    \/ Call2
    \/ Step

Spec == Init /\ [][Next]_vars

\* A call in progress goes on: the stack machine always takes its next step.
FairSpec == Spec /\ WF_vars(Step) /\ WF_vars(ExpandOne) /\ WF_vars(ExpandMany)

--------------------------------------------------------------------------
(* Reading a trace.                                                        *)

\* The positions in trace t of the events e of node p.
Pos(t, e, p) == {i \in DOMAIN t : t[i].ev = e /\ t[i].path = p}
Has(t, e, p) == Pos(t, e, p) # {}
Built == {c \in Slots : node[c] # NoNode}
PathsOf(c, kind) == {p \in AllPaths(node[c]) : NodeAt(node[c], p).kind = kind}
\* The run of c that trace[c] records is over.
Over(c) == cur # c
LastOut(c) == outs[c][Len(outs[c])]

--------------------------------------------------------------------------
(* C10: the expansion of impl_graph_node_for_tuples! on the 8 triples      *)
(* terminates, and what it has generated when it ends is one tuple         *)
(* implementation for each arity 1..8 and no other (none for arity 0,      *)
(* none above 8, none twice).                                              *)

ImplsOfArity(k) == {i \in DOMAIN impls : Len(impls[i].self) = k}

C10_ImplsPerArity ==
    /\ \A i \in DOMAIN impls : Len(impls[i].self) \in 1..8
    /\ \A k \in 1..8 : Cardinality(ImplsOfArity(k)) <= 1
    /\ compiled => \A k \in 1..8 : Cardinality(ImplsOfArity(k)) = 1

\* C10: at every point of the expansion no arity outside 1..8 and none twice,
\* the expansion ends, and at its end each arity 1..8 has exactly one impl.
C10_TupleMacroExpansion == []C10_ImplsPerArity /\ <>[]compiled

C10_Witness == compiled /\ Len(impls) = 8 /\ node[1] # NoNode

--------------------------------------------------------------------------
(* C1: in a run of a Graph (the composite pipe(src, sink)), src is called  *)
(* with the Graph's input and at most once, sink is called at most once,   *)
(* only after src has returned and with the value src returned, and a      *)
(* Graph that returns has called each exactly once and returns what sink   *)
(* returned.                                                               *)

C1_At(t, p) ==
    LET src == Append(p, 1)
        sink == Append(p, 2)
    IN /\ Cardinality(Pos(t, "call", src)) <= 1
       /\ Cardinality(Pos(t, "call", sink)) <= 1
       /\ \A i \in Pos(t, "call", src) :
             i - 1 \in Pos(t, "call", p) /\ t[i].val = t[i - 1].val
       /\ \A i \in Pos(t, "call", sink) :
             /\ i - 1 \in Pos(t, "ret", src)
             /\ t[i].val = t[i - 1].val
             /\ \A j \in Pos(t, "call", src) : j < i
       /\ \A i \in Pos(t, "ret", p) :
             /\ Cardinality(Pos(t, "call", src)) = 1
             /\ Cardinality(Pos(t, "call", sink)) = 1
             /\ i - 1 \in Pos(t, "ret", sink)
             /\ t[i].val = t[i - 1].val

\* C1: every Graph in every composite runs src once on its input, then sink
\* once on what src returned, and returns what sink returned.
C1_PipeRun ==
    \A c \in Built :
        /\ \A p \in PathsOf(c, "Graph") : C1_At(trace[c], p)
        /\ (Over(c) /\ node[c].kind = "Graph" /\ Has(trace[c], "ret", <<>>)) =>
              /\ LastOut(c).res = "ret"
              /\ LastOut(c).val = trace[c][Len(trace[c])].val

C1_Witness ==
    /\ node[1] # NoNode
    /\ node[1].kind = "Graph"
    /\ node[1].src.kind = "Fn" /\ node[1].src.body = "inc"
    /\ cur = 0
    /\ Len(outs[1]) = 2
    /\ LastOut(1).res = "ret"
    /\ Has(trace[1], "ret", <<2>>)

--------------------------------------------------------------------------
(* C2: in a run of a tuple of k nodes (k in 1..8) on (x1, ..., xk), node i *)
(* is called at most once and with xi, node 1 first and node i + 1 only    *)
(* once node i has returned, and a tuple that returns has called every     *)
(* node exactly once, in the order 1, ..., k, and returns the tuple of     *)
(* what they returned, position by position.                               *)

C2_At(t, p, k) ==
    /\ k \in 1..8
    /\ \A i \in 1..k :
          /\ Cardinality(Pos(t, "call", Append(p, i))) <= 1
          /\ \A n \in Pos(t, "call", Append(p, i)) :
                /\ \E m \in Pos(t, "call", p) : t[n].val = t[m].val.t[i]
                /\ IF i = 1 THEN n - 1 \in Pos(t, "call", p)
                   ELSE n - 1 \in Pos(t, "ret", Append(p, i - 1))
    /\ \A r \in Pos(t, "ret", p) :
          /\ t[r].val.k = "tup"
          /\ Len(t[r].val.t) = k
          /\ r - 1 \in Pos(t, "ret", Append(p, k))
          /\ \A i \in 1..k :
                /\ Cardinality(Pos(t, "call", Append(p, i))) = 1
                /\ \E n \in Pos(t, "ret", Append(p, i)) : t[r].val.t[i] = t[n].val

\* C2: every tuple in every composite runs node i on component i, in the
\* order 1..k, once each, and returns the tuple of their results.
C2_TupleRun ==
    \A c \in Built :
        \A p \in PathsOf(c, "Tuple") :
            C2_At(trace[c], p, Len(NodeAt(node[c], p).items))

C2_Witness ==
    /\ node[1] # NoNode
    /\ node[1].kind = "Tuple"
    /\ Len(node[1].items) = 8
    /\ cur = 0
    /\ Len(outs[1]) = 2
    /\ LastOut(1).res = "ret"
    /\ LastOut(1).val.t[8] = I32(2)

--------------------------------------------------------------------------
(* What the closures of composite c saw in its latest run: the events of   *)
(* the trace that are a closure's, with the closure's id for its path.     *)

IsFnEvent(c, e) == NodeAt(node[c], e.path).kind = "Fn"
FnEvents(c) == SelectSeq(trace[c], LAMBDA e : IsFnEvent(c, e))
LeafTrace(c) ==
    [i \in DOMAIN FnEvents(c) |->
        [ev |-> FnEvents(c)[i].ev,
         id |-> NodeAt(node[c], FnEvents(c)[i].path).id,
         val |-> FnEvents(c)[i].val]]
LeafCalls(c) == SelectSeq(LeafTrace(c), LAMBDA e : e.ev = "call")

\* Both composites are built, no run is in progress, and the second has
\* been run on every input of the first (at least `n` of them) that it is
\* to be given.
InStep(n) ==
    /\ Built = Slots
    /\ cur = 0
    /\ Len(inputs[1]) >= n
    /\ Len(inputs[2]) = Len(FedRuns)
    /\ Len(outs[2]) = Len(inputs[2])

--------------------------------------------------------------------------
(* C3: for closures A, B, C (ids 1, 2, 3) that start in the same states,   *)
(* A.pipe(B).pipe(C) and A.pipe(B.pipe(C)) given the same inputs end every *)
(* run the same way (the same value, or both panic), leave A, B and C in   *)
(* the same states, and both call A, then B, then C.                       *)

\* C3: the two nestings of A, B, C call A, B, C in that order and, on the
\* same inputs, end alike and leave the closures in the same states.
C3_PipeAssociative ==
    prog.is = "assoc" =>
        /\ \A c \in Built : \A i \in DOMAIN LeafCalls(c) : LeafCalls(c)[i].id = i
        /\ InStep(1) =>
              /\ outs[1] = outs[2]
              /\ st[1] = st[2]
              /\ LeafTrace(1) = LeafTrace(2)

C3_Witness ==
    /\ prog.is = "assoc"
    /\ InStep(2)
    /\ node[1].src.kind = "Graph" /\ node[2].sink.kind = "Graph"
    /\ LastOut(2).res = "ret"
    /\ Len(LeafCalls(2)) = 3
    /\ st[2][1] > 0 /\ st[2][3] = 2

--------------------------------------------------------------------------
(* C4: graph!{ => s1 => ... => sn } builds the node s1.pipe(s2)...pipe(sn) *)
(* (s1 itself when n = 1), the two behave alike on every sequence of       *)
(* inputs (outcomes and order of calls), and the i-th node of a            *)
(* parenthesized stage is called with position i of what the stages before *)
(* it returned.                                                            *)

Stages == prog.mk[1].stages
\* Where stage s >= 2 of a left-nested chain of n stages is, and where the
\* chain of the stages before it is.
StagePath(n, s) == [k \in 1..(n - s) |-> 1] \o <<2>>
PrevPath(n, s) == [k \in 1..(n - s) |-> 1] \o <<1>>

C4_StageInputs(t) ==
    \A s \in 2..Len(Stages) :
        Stages[s].kind = "Tuple" =>
            \A i \in 1..Len(Stages[s].items) :
                \A n \in Pos(t, "call", Append(StagePath(Len(Stages), s), i)) :
                    \E m \in Pos(t, "ret", PrevPath(Len(Stages), s)) :
                        m < n /\ t[n].val = t[m].val.t[i]

\* C4: what graph! builds is the left-nested chain of pipe calls, and runs
\* like it; a parenthesized stage gets the earlier stages' result by position.
C4_GraphMacro ==
    (prog.is = "chain" /\ 1 \in Built) =>
        /\ node[1] = PipeChain(Stages)
        /\ Len(Stages) = 1 => node[1] = Stages[1]
        /\ 2 \in Built => node[1] = node[2]
        /\ C4_StageInputs(trace[1])
        /\ InStep(1) => (outs[1] = outs[2] /\ trace[1] = trace[2])

C4_Witness ==
    /\ prog.is = "chain"
    /\ Len(Stages) = 4
    /\ InStep(2)
    /\ LastOut(1).res = "ret"
    /\ Has(trace[1], "ret", <<1, 2, 2>>)

--------------------------------------------------------------------------
(* Panics.                                                                 *)

\* A panic of node q has been logged and has not yet left the frame of its
\* caller p, or has and is logged as a panic of p.
Aborts(c, p, q) ==
    \/ Has(trace[c], "panic", p)
    \/ cur = c /\ ctl.op = "panic" /\ ctl.path = q

\* Every call a counter closure was ever given is still counted in it.
CountersKeep(c) ==
    \A q \in PathsOf(c, "Fn") :
        NodeAt(node[c], q).body = "cnt" =>
            st[c][NodeAt(node[c], q).id] = fcalls[c][NodeAt(node[c], q).id]

\* A step taken while a panic unwinds leaves every closure as it is.
NoRollback == ctl.op = "panic" => st' = st

--------------------------------------------------------------------------
(* C5: when the node in slot j of a tuple panics, the tuple's run panics   *)
(* and returns nothing, the nodes of the slots after j are not called in   *)
(* that run, and what the nodes of the slots before j did to their state   *)
(* stays (they had all returned; nothing undoes it).                       *)

C5_At(c, p, k) ==
    \A j \in 1..k :
        Has(trace[c], "panic", Append(p, j)) =>
            /\ ~Has(trace[c], "ret", p)
            /\ Aborts(c, p, Append(p, j))
            /\ \A i \in (j + 1)..k : ~Has(trace[c], "call", Append(p, i))
            /\ \A i \in 1..(j - 1) : Has(trace[c], "ret", Append(p, i))
            /\ Over(c) => LastOut(c).res = "panic"

C5_State ==
    \A c \in Built :
        /\ CountersKeep(c)
        /\ \A p \in PathsOf(c, "Tuple") : C5_At(c, p, Len(NodeAt(node[c], p).items))

\* C5: a panic in slot j ends the tuple's run with a panic, later slots are
\* not called, earlier slots have returned, and unwinding undoes nothing.
C5_TupleSlotPanic == []C5_State /\ [][NoRollback]_vars

C5_Witness ==
    /\ Built = Slots
    /\ node[1].kind = "Tuple"
    /\ Len(node[1].items) = 8
    /\ cur = 0
    /\ Len(outs[1]) = 2
    /\ outs[1][1].res = "panic" /\ outs[1][2].res = "ret"
    /\ st[1][1] = 2 /\ st[1][8] = 1

--------------------------------------------------------------------------
(* C6: a Graph whose src panics panics without calling sink; one whose     *)
(* sink panics panics, src having returned and its effect staying; one     *)
(* whose src or sink never returns never returns (and never calls sink in  *)
(* the first case); and one whose src and sink have both returned returns. *)

\* Node q of the running composite c was called and is in a closure that
\* never returns.
Hung(c, q) ==
    /\ cur = c
    /\ ctl.op = "hang"
    /\ Has(trace[c], "call", q)
    /\ ~Has(trace[c], "ret", q)

\* src and sink of Graph p have returned and p has not.
OwesReturn(c, p) ==
    /\ Has(trace[c], "ret", Append(p, 1))
    /\ Has(trace[c], "ret", Append(p, 2))
    /\ ~Has(trace[c], "ret", p)

C6_At(c, p) ==
    LET t == trace[c]
        src == Append(p, 1)
        sink == Append(p, 2)
    IN /\ Has(t, "panic", src) =>
             ~Has(t, "call", sink) /\ ~Has(t, "ret", p) /\ Aborts(c, p, src)
       /\ Has(t, "panic", sink) =>
             Has(t, "ret", src) /\ ~Has(t, "ret", p) /\ Aborts(c, p, sink)
       /\ (Has(t, "panic", src) \/ Has(t, "panic", sink)) =>
             (Over(c) => LastOut(c).res = "panic")
       /\ Hung(c, src) => ~Has(t, "call", sink) /\ ~Has(t, "ret", p)
       /\ Hung(c, sink) => Has(t, "ret", src) /\ ~Has(t, "ret", p)
       /\ OwesReturn(c, p) => (cur = c /\ ctl.op = "ret" /\ ctl.path = sink)

C6_State ==
    \A c \in Built :
        /\ CountersKeep(c)
        /\ \A p \in PathsOf(c, "Graph") : C6_At(c, p)

SomePipeOwesReturn == \E c \in Built : \E p \in PathsOf(c, "Graph") : OwesReturn(c, p)

\* C6: a panic or a hang of src or sink is the Graph's (sink not called when
\* it is src's, src's effect kept when it is sink's), a hang is for ever,
\* and a Graph whose src and sink have returned returns.
C6_PipeNoIsolation ==
    /\ []C6_State
    /\ [][ctl.op # "hang"]_vars
    /\ [][NoRollback]_vars
    /\ SomePipeOwesReturn ~> ~SomePipeOwesReturn

\* The src of a Graph never returns, in a run that follows one in which the
\* sink of the same Graph panicked after src had counted its call.
C6_Witness ==
    /\ 1 \in Built
    /\ prog.is = "assoc"
    /\ node[1].src.kind = "Graph"
    /\ node[1].src.src.body = "spin"
    /\ node[1].sink.body = "chk"
    /\ Len(outs[1]) = 1
    /\ outs[1][1].res = "panic"
    /\ st[1][2] = 1
    /\ Hung(1, <<1>>)
    /\ Hung(1, <<1, 1>>)
    /\ ~Has(trace[1], "call", <<1, 2>>)
    /\ ~Has(trace[1], "call", <<2>>)

--------------------------------------------------------------------------
(* C7: a counter closure (starts at 0, adds 1 and returns the sum on each  *)
(* call) anywhere in a composite.                                          *)

Counters(c) == {q \in PathsOf(c, "Fn") : NodeAt(node[c], q).body = "cnt"}
Runs(c) == Len(inputs[c])
\* The runs of c before the latest that did not call its node q, and all the
\* runs of c that did.
Missed(c, q) == {k \in 1..(Runs(c) - 1) : q \notin reached[c][k]}
Counted(c, q) == {k \in 1..Runs(c) : q \in reached[c][k]}

\* C7 as stated: in the n-th run of its composite the counter returns n.
C7_Original ==
    \A c \in Built : \A q \in Counters(c) :
        \A i \in Pos(trace[c], "ret", q) : trace[c][i].val = I32(Runs(c))

\* C7, amended: in the n-th run of its composite the counter returns n minus
\* the number of earlier runs that did not call it, and a run that did not
\* call it panicked; a run calls it at most once; each composite counts for
\* itself, from 0 when it is built, and keeps the count of every call it was
\* given, whether the run then returned or panicked.
C7_CounterPersists ==
    \A c \in Built : \A q \in Counters(c) :
        /\ Cardinality(Pos(trace[c], "call", q)) <= 1
        /\ Runs(c) = 0 => st[c][NodeAt(node[c], q).id] = 0
        /\ \A k \in DOMAIN outs[c] : q \notin reached[c][k] => outs[c][k].res = "panic"
        /\ \A i \in Pos(trace[c], "ret", q) :
              trace[c][i].val = I32(Runs(c) - Cardinality(Missed(c, q)))
        /\ Over(c) => st[c][NodeAt(node[c], q).id] = Cardinality(Counted(c, q))

\* The second run returns, the counter giving 2, after a first run that
\* panicked past the counter; the other composite has not run yet.
C7_Witness ==
    /\ Built = Slots
    /\ prog.is = "assoc"
    /\ node[1].src.kind = "Graph" /\ node[1].src.src.body = "cnt"
    /\ cur = 0
    /\ Len(outs[1]) = 2
    /\ outs[1][1].res = "panic" /\ outs[1][2].res = "ret"
    /\ \E i \in Pos(trace[1], "ret", <<1, 1>>) : trace[1][i].val = I32(2)
    /\ st[1][1] = 2
    /\ Runs(2) = 0 /\ st[2][1] = 0

--------------------------------------------------------------------------
(* C8: a closure f run as a node on x is called once, with x, and what it  *)
(* returns is what the node returns; nothing else happens.                 *)

\* The state of a closure that has been called on xs, one after the other.
RECURSIVE FoldSt(_, _)
FoldSt(body, xs) ==
    IF xs = <<>> THEN 0
    ELSE Closure(body, FoldSt(body, SubSeq(xs, 1, Len(xs) - 1)), xs[Len(xs)]).st

C8_At(c) ==
    LET f == node[c]
        n == Runs(c)
        x == inputs[c][n]
        r == Closure(f.body, FoldSt(f.body, SubSeq(inputs[c], 1, n - 1)), x)
    IN IF cur = c /\ ctl.op = "call"
       THEN /\ trace[c] = <<Ev("call", <<>>, x)>>
            /\ fcalls[c][f.id] = n - 1
            /\ st[c][f.id] = FoldSt(f.body, SubSeq(inputs[c], 1, n - 1))
       ELSE /\ trace[c] = <<Ev("call", <<>>, x), Ev(r.res, <<>>, r.out)>>
            /\ fcalls[c][f.id] = n
            /\ st[c][f.id] = r.st
            /\ Over(c) => LastOut(c) = [res |-> r.res, val |-> r.out]

\* C8: a closure run as a node is called once with the input and returns
\* what the closure returns, with the closure's own effect and no other.
C8_ClosureIsNode ==
    \A c \in Built : (node[c].kind = "Fn" /\ Runs(c) > 0) => C8_At(c)

C8_Witness ==
    /\ 1 \in Built
    /\ node[1].kind = "Fn" /\ node[1].body = "acc"
    /\ cur = 0
    /\ Len(outs[1]) = 2
    /\ outs[1][1].val = I32(1) /\ outs[1][2].val = I32(3)

--------------------------------------------------------------------------
(* C9: the state of the node in slot j of a tuple, against the state of    *)
(* the same node run alone (composite 2) on j-th components of the tuple's *)
(* inputs.                                                                 *)

SlotSameAsAlone == \A id \in DOMAIN st[2] : st[1][id] = st[2][id]

\* The j-th components of the inputs of all the finished runs of the tuple,
\* and of those of the runs in which the tuple called the node of slot j.
AllComponents == [i \in DOMAIN RunsDone |-> Replay(RunsDone[i])]
ReachedComponents == [i \in DOMAIN ReachedRuns |-> Replay(ReachedRuns[i])]

\* The tuple has run, the node alone has been run on xs, no run is going on.
AloneOn(xs) ==
    /\ prog.is = "group"
    /\ Built = Slots
    /\ cur = 0
    /\ Len(outs[1]) >= 1
    /\ inputs[2] = xs
    /\ Len(outs[2]) = Len(xs)

\* Run k of the tuple did not call the node of slot j only if it panicked in
\* a slot before j.
SkippedByPanic(k, j) ==
    <<j>> \notin reached[1][k] =>
        /\ outs[1][k].res = "panic"
        /\ \E m \in 1..(j - 1) : <<m>> \in reached[1][k] /\ <<m + 1>> \notin reached[1][k]

\* C9 as stated: after any runs of the tuple, the node of slot j is in the
\* state the node alone is in after the j-th components of their inputs.
C9_Original == AloneOn(AllComponents) => SlotSameAsAlone

\* C9, amended: after any runs of the tuple, the node of slot j is in the
\* state the node alone is in after the j-th components of the inputs of the
\* runs in which no slot before j panicked, and these are the runs in which
\* the tuple called it.
C9_SlotStateLocal ==
    /\ AloneOn(ReachedComponents) => SlotSameAsAlone
    /\ (prog.is = "group" /\ 1 \in Built) =>
          \A k \in DOMAIN outs[1] : \A j \in 1..Len(node[1].items) : SkippedByPanic(k, j)

\* Slot 6 of an 8-tuple after two runs: slot 4 panicked in the first, which
\* never called slot 6, and the node alone was run on the second's input only.
C9_Witness ==
    /\ AloneOn(ReachedComponents)
    /\ Len(node[1].items) = 8
    /\ prog.proj = 6
    /\ Len(outs[1]) = 2
    /\ outs[1][1].res = "panic" /\ outs[1][2].res = "ret"
    /\ Len(inputs[2]) = 1
    /\ st[2][6] > 0
    /\ st[1][2] # st[1][6]

====
